---- MODULE Spec2Model ----
(***************************************************************************)
(* Monocular visual odometry node (visual_odometry_publisher.py).          *)
(*                                                                         *)
(* The node keeps a previous frame, and for every later frame matches ORB  *)
(* keypoints between the two, estimates the relative pose from the         *)
(* essential matrix, and publishes an Odometry message.                    *)
(*                                                                         *)
(* Calls into OpenCV (ORB detection, FLANN knnMatch, findEssentialMat,     *)
(* decomposeEssentialMat, triangulatePoints) are the environment: their    *)
(* answers are drawn from bounded families.  Everything the repository     *)
(* itself computes on those answers is computed here the same way.         *)
(*                                                                         *)
(* Floating point values that can leave the finite range are modelled as   *)
(* exact rationals extended with NaN and +/-Inf ("F-values").  Python's    *)
(* 0-based indices are 1-based here.                                       *)
(***************************************************************************)
EXTENDS Integers, Sequences, FiniteSets, TLC

VARIABLES
    process_frames,   \* global process_frames
    old_frame,        \* global old_frame
    new_frame,        \* global new_frame
    cur_pose,         \* global cur_pose (4x4)
    odometry,         \* global odometry (the reused Odometry message)
    world_points,     \* vo.world_points
    published,        \* messages handed to vo_pub.publish, in order
    delivered,        \* number of frames delivered to image_callback so far
    last,             \* what the latest image_callback invocation did
    main_pc,          \* the line of __main__ the main thread executes next
    defined,          \* the globals of lines 223-228 that exist so far
    cb_pc,            \* the line image_callback executes next, or "idle"
    cb,               \* image_callback's argument and locals
    fn_in,            \* input of the function under study (function specs)
    fn_out            \* its result (function specs)

vars == <<process_frames, old_frame, new_frame, cur_pose, odometry,
          world_points, published, delivered, last, main_pc, defined, cb_pc, cb,
          fn_in, fn_out>>

-----------------------------------------------------------------------------
(* Program constants *)

MinKeypoints == 6
MinMatches == 20
PositionDivisor == 100
EpsilonDen == 100000

(* Bounds of the model *)

MaxFrames == 3
ImgWidth == 4
MaxVar == 3
MaxPts == 3
MaxCoord == 2

-----------------------------------------------------------------------------
(* F-values: exact rationals extended with NaN and signed infinity *)

Abs(x) == IF x < 0 THEN -x ELSE x

Sgn(x) == IF x < 0 THEN -1 ELSE IF x = 0 THEN 0 ELSE 1

RECURSIVE GCD(_, _)
GCD(a, b) == IF b = 0 THEN a ELSE GCD(b, a % b)

Fin(n, d) ==
    LET g == GCD(Abs(n), Abs(d))
    IN  [k |-> "fin", n |-> (Sgn(d) * n) \div g, d |-> Abs(d) \div g]

FromInt(i) == [k |-> "fin", n |-> i, d |-> 1]

NaN == [k |-> "nan", n |-> 0, d |-> 1]

Inf(s) == [k |-> "inf", n |-> s, d |-> 1]

FMul(a, b) ==
    IF a.k = "nan" \/ b.k = "nan" THEN NaN
    ELSE IF a.k = "fin" /\ b.k = "fin" THEN Fin(a.n * b.n, a.d * b.d)
    ELSE IF Sgn(a.n) * Sgn(b.n) = 0 THEN NaN
    ELSE Inf(Sgn(a.n) * Sgn(b.n))

FDiv(a, b) ==
    IF a.k = "nan" \/ b.k = "nan" THEN NaN
    ELSE IF a.k = "inf" /\ b.k = "inf" THEN NaN
    ELSE IF a.k = "inf" THEN Inf(IF b.n < 0 THEN -a.n ELSE a.n)
    ELSE IF b.k = "inf" THEN FromInt(0)
    ELSE IF b.n = 0 THEN (IF a.n = 0 THEN NaN ELSE Inf(Sgn(a.n)))
    ELSE Fin(a.n * b.d, a.d * b.n)

FAdd(a, b) ==
    IF a.k = "nan" \/ b.k = "nan" THEN NaN
    ELSE IF a.k = "fin" /\ b.k = "fin" THEN Fin(a.n * b.d + b.n * a.d, a.d * b.d)
    ELSE IF a.k = "inf" /\ b.k = "inf" THEN (IF a.n = b.n THEN a ELSE NaN)
    ELSE IF a.k = "inf" THEN a ELSE b

IsFinite(a) == a.k = "fin"

\* The array with the elements of the function f on 1..n, all evaluated
Array(f) == SubSeq(f, 1, Len(f))

ISqrt(n) == CHOOSE r \in 0..n : r * r = n

FSqrt(a) ==
    IF a.k = "nan" THEN NaN
    ELSE IF a.k = "inf" THEN (IF a.n > 0 THEN a ELSE NaN)
    ELSE IF a.n < 0 THEN NaN
    ELSE Fin(ISqrt(a.n), ISqrt(a.d))

-----------------------------------------------------------------------------
(* Frames and ORB keypoints *)

\* An image: its sequence number in the stream, how many features the
\* detector finds in it, whether one feature sits on the right-hand border
\* column, and whether the image has been mirrored.
Frame(id, n, edge) == [id |-> id, n |-> n, edge |-> edge, mirrored |-> FALSE]

NoFrame == [id |-> 0, n |-> 0, edge |-> FALSE, mirrored |-> FALSE]

\* cv2.flip(img, 1): horizontal mirror
Flip(img) == [img EXCEPT !.mirrored = ~img.mirrored]

\* Pixel position of feature i in the unmirrored image
RawPt(img, i) ==
    IF img.edge /\ i = 1 THEN <<ImgWidth - 1, 1>>
    ELSE <<i % (ImgWidth - 1), 1 + (i \div (ImgWidth - 1))>>

\* orb.detectAndCompute(img, None): the keypoints' .pt, in detection order
DetectAndCompute(img) ==
    Array([i \in 1..img.n |->
        IF img.mirrored THEN <<ImgWidth - 1 - RawPt(img, i)[1], RawPt(img, i)[2]>>
        ELSE RawPt(img, i)])

-----------------------------------------------------------------------------
(* FLANN knnMatch(des1, des2, k=2): one entry per query descriptor, each a  *)
(* list of at most two DMatch                                               *)

DMatch(q, t, dist) == [queryIdx |-> q, trainIdx |-> t, distance |-> dist]

Kinds == {"pass", "tie", "one", "zero"}

\* The answer is described by runs of entry kinds followed by a tail kind:
\* "pass" (nearest at distance 1, second at 3), "tie" (1 and 2: exactly at the
\* ratio), "one" (a single neighbour) and "zero" (no neighbour)
RECURSIVE KindAt(_, _, _)
KindAt(runs, tail, i) ==
    IF runs = <<>> THEN tail
    ELSE IF i <= Head(runs).count THEN Head(runs).kind
    ELSE KindAt(Tail(runs), tail, i - Head(runs).count)

Train(i, n2, shift) == ((i - 1 + shift) % n2) + 1

KnnEntry(kind, i, n2, shift) ==
    LET t1 == Train(i, n2, shift)
        t2 == (t1 % n2) + 1
    IN  CASE kind = "pass" -> <<DMatch(i, t1, 1), DMatch(i, t2, 3)>>
          [] kind = "tie"  -> <<DMatch(i, t1, 1), DMatch(i, t2, 2)>>
          [] kind = "one"  -> <<DMatch(i, t1, 1)>>
          [] OTHER         -> <<>>

KnnMatch(kp1, kp2, pat) ==
    Array([i \in 1..Len(kp1) |-> KnnEntry(KindAt(pat.runs, pat.tail, i), i, Len(kp2), pat.shift)])

-----------------------------------------------------------------------------
(* VisualOdometry.get_matches *)

\* Variant of the loop that also accepts a match exactly at the ratio
RECURSIVE RatioLoopLoose(_, _, _)
RatioLoopLoose(matches, i, good) ==
    IF i > Len(matches) THEN good
    ELSE IF Len(matches[i]) # 2 THEN good
    ELSE LET m == matches[i][1]
             n == matches[i][2]
         IN  IF 2 * m.distance <= n.distance
             THEN RatioLoopLoose(matches, i + 1, Append(good, m))
             ELSE RatioLoopLoose(matches, i + 1, good)

\* The ratio-test loop.  Unpacking "for m, n in matches" raises ValueError on
\* an entry that does not hold exactly two DMatch; the try block encloses the
\* whole loop, so the handler is reached with the loop abandoned.
RECURSIVE RatioLoop(_, _, _)
RatioLoop(matches, i, good) ==
    IF i > Len(matches) THEN good
    ELSE IF Len(matches[i]) # 2 THEN good
    ELSE LET m == matches[i][1]
             n == matches[i][2]
         IN  IF 2 * m.distance < n.distance
             THEN RatioLoop(matches, i + 1, Append(good, m))
             ELSE RatioLoop(matches, i + 1, good)

NoMatches == [none |-> TRUE, q1 |-> <<>>, q2 |-> <<>>, good |-> <<>>, matches |-> <<>>,
              knn_calls |-> 0]

\* Variant that matches frames holding exactly MinKeypoints keypoints
GetMatchesAtLeast(img1, img2, pat) ==
    LET kp1 == DetectAndCompute(img1)
        kp2 == DetectAndCompute(img2)
    IN  IF Len(kp1) >= MinKeypoints /\ Len(kp2) >= MinKeypoints
        THEN LET matches == KnnMatch(kp1, kp2, pat)
                 good == RatioLoop(matches, 1, <<>>)
             IN  [none |-> FALSE,
                  q1 |-> Array([j \in 1..Len(good) |-> kp1[good[j].queryIdx]]),
                  q2 |-> Array([j \in 1..Len(good) |-> kp2[good[j].trainIdx]]),
                  good |-> good, matches |-> matches, knn_calls |-> 1]
        ELSE NoMatches

GetMatches(img1, img2, pat) ==
    LET kp1 == DetectAndCompute(img1)
        kp2 == DetectAndCompute(img2)
    IN  IF Len(kp1) > MinKeypoints /\ Len(kp2) > MinKeypoints
        THEN LET matches == KnnMatch(kp1, kp2, pat)
                 good == RatioLoop(matches, 1, <<>>)
             IN  [none |-> FALSE,
                  q1 |-> Array([j \in 1..Len(good) |-> kp1[good[j].queryIdx]]),
                  q2 |-> Array([j \in 1..Len(good) |-> kp2[good[j].trainIdx]]),
                  good |-> good, matches |-> matches, knn_calls |-> 1]
        ELSE NoMatches

-----------------------------------------------------------------------------
(* Small linear algebra on tuples of rows *)

I3 == <<<<1, 0, 0>>, <<0, 1, 0>>, <<0, 0, 1>>>>

\* Rotations by 180 degrees about the x, y and z axis
RotX == <<<<1, 0, 0>>, <<0, -1, 0>>, <<0, 0, -1>>>>

RotY == <<<<-1, 0, 0>>, <<0, 1, 0>>, <<0, 0, -1>>>>

RotZ == <<<<-1, 0, 0>>, <<0, -1, 0>>, <<0, 0, 1>>>>

Rotations == {I3, RotX, RotY, RotZ}

\* np.identity(4)
Identity4 == <<<<1, 0, 0, 0>>, <<0, 1, 0, 0>>, <<0, 0, 1, 0>>, <<0, 0, 0, 1>>>>

Neg(v) == Array([j \in 1..Len(v) |-> -v[j]])

Sub(u, v) == Array([j \in 1..Len(u) |-> u[j] - v[j]])

SumSq(v) == v[1] * v[1] + v[2] * v[2] + v[3] * v[3]

\* np.matmul(T, h) for a 4x4 T and one homogeneous column h
MatVec4(T, h) ==
    Array([r \in 1..4 |-> T[r][1] * h[1] + T[r][2] * h[2] + T[r][3] * h[3] + T[r][4] * h[4]])

\* Exact integer quotient; the homogeneous coordinate is +1 or -1 in this model
IDiv(a, b) == IF b < 0 THEN (-a) \div (-b) ELSE a \div b

\* hom[:3, :] / hom[3, :]
UnHomogenize(hom) ==
    Array([i \in 1..Len(hom) |-> <<IDiv(hom[i][1], hom[i][4]), IDiv(hom[i][2], hom[i][4]),
                                   IDiv(hom[i][3], hom[i][4])>>])

\* VisualOdometry._form_transf
FormTransf(R, t) ==
    <<<<R[1][1], R[1][2], R[1][3], t[1]>>,
      <<R[2][1], R[2][2], R[2][3], t[2]>>,
      <<R[3][1], R[3][2], R[3][3], t[3]>>,
      <<0, 0, 0, 1>>>>

-----------------------------------------------------------------------------
(* cv2.triangulatePoints: one homogeneous point per correspondence.  The    *)
(* answer is a short cycle of points repeated over the correspondences.     *)

Triangulate(cyc, n) == Array([i \in 1..n |-> cyc[((i - 1) % Len(cyc)) + 1]])

-----------------------------------------------------------------------------
(* VisualOdometry.decomp_essential_mat *)

\* sum(Q[2, :] > 0)
PosZ(Q) == Cardinality({i \in 1..Len(Q) : Q[i][3] > 0})

\* np.linalg.norm(a) / np.linalg.norm(b), as the root of the quotient of the
\* squared norms
NormRatio(a, b) == FSqrt(FDiv(FromInt(SumSq(a)), FromInt(SumSq(b))))

RECURSIVE FSum(_, _)
FSum(seq, i) == IF i > Len(seq) THEN FromInt(0) ELSE FAdd(seq[i], FSum(seq, i + 1))

\* Variant that adds the ratios up without dividing by their number
MeanSum(seq) == FSum(seq, 1)

\* np.mean
Mean(seq) == FDiv(FSum(seq, 1), FromInt(Len(seq)))

\* np.mean(norm(Q1.T[:-1] - Q1.T[1:]) / norm(Q2.T[:-1] - Q2.T[1:]))
RelativeScale(Q1, Q2) ==
    Mean(Array([i \in 1..(Len(Q1) - 1) |->
                  NormRatio(Sub(Q1[i], Q1[i + 1]), Sub(Q2[i], Q2[i + 1]))]))

\* sum_z_cal_relative_scale(R, t), homQ1 being what triangulatePoints answers
SumZCalRelativeScale(R, t, homQ1) ==
    LET T == FormTransf(R, t)
        homQ2 == Array([i \in 1..Len(homQ1) |-> MatVec4(T, homQ1[i])])
        Q1 == UnHomogenize(homQ1)
        Q2 == UnHomogenize(homQ2)
    IN  [z_sum |-> PosZ(Q1) + PosZ(Q2), scale |-> RelativeScale(Q1, Q2),
         Q1 |-> Q1, Q2 |-> Q2]

\* Variant that takes the last index holding the maximum
ArgMaxLast(seq) ==
    CHOOSE i \in 1..Len(seq) :
        /\ \A j \in 1..Len(seq) : seq[j] <= seq[i]
        /\ \A j \in (i + 1)..Len(seq) : seq[j] < seq[i]

\* np.argmax: the first index holding the maximum
ArgMax(seq) ==
    CHOOSE i \in 1..Len(seq) :
        /\ \A j \in 1..Len(seq) : seq[j] <= seq[i]
        /\ \A j \in 1..(i - 1) : seq[j] < seq[i]

Epsilon == Fin(1, EpsilonDen)

\* Variant that leaves non-finite components in place
ClampOff(t) == t

\* t[~np.isfinite(t)] = 0.00001
Clamp(t) == Array([j \in 1..Len(t) |-> IF IsFinite(t[j]) THEN t[j] ELSE Epsilon])

\* t * relative_scale
Scale(t, s) == Array([j \in 1..Len(t) |-> FMul(FromInt(t[j]), s)])

\* The pair index and scale index used after the candidate loop
RightPairIdx(z_sums) == ArgMax(z_sums)

ScaleIdx(z_sums) == RightPairIdx(z_sums)

\* dec: what decomposeEssentialMat answers (R1, R2, t); tri: what
\* triangulatePoints answers for the four candidates and for the last call.
\* The result holds the returned [R1, t], the entry appended to
\* self.world_points, and the locals of the call.
DecompEssentialMat(dec, tri, q1, q2) ==
    LET pairs == <<<<dec.R1, dec.t>>, <<dec.R1, Neg(dec.t)>>,
                   <<dec.R2, dec.t>>, <<dec.R2, Neg(dec.t)>>>>
        res == Array([c \in 1..4 |->
                  SumZCalRelativeScale(pairs[c][1], pairs[c][2],
                                       Triangulate(tri.cand[c], Len(q1)))])
        z_sums == Array([c \in 1..4 |-> res[c].z_sum])
        relative_scales == Array([c \in 1..4 |-> res[c].scale])
        right_pair_idx == RightPairIdx(z_sums)
        right_pair == pairs[right_pair_idx]
        relative_scale == relative_scales[ScaleIdx(z_sums)]
        scaled == Scale(right_pair[2], relative_scale)
        t == Clamp(scaled)
        Q1 == UnHomogenize(Triangulate(tri.final, Len(q1)))
    IN  [R |-> right_pair[1], t |-> t, appended |-> Q1,
         pairs |-> pairs, z_sums |-> z_sums, relative_scales |-> relative_scales,
         right_pair_idx |-> right_pair_idx, scaled |-> scaled]

\* VisualOdometry.get_pose
GetPose(q1, q2, dec, tri) ==
    LET d == DecompEssentialMat(dec, tri, q1, q2)
    IN  [transf |-> FormTransf(d.R, d.t), decomp |-> d]

-----------------------------------------------------------------------------
(* matrix_to_quaternion *)

\* cv2.Rodrigues on the rotations of this model: the rotation vector in
\* units of pi
Rodrigues(R) ==
    CASE R = I3   -> <<0, 0, 0>>
      [] R = RotX -> <<1, 0, 0>>
      [] R = RotY -> <<0, 1, 0>>
      [] R = RotZ -> <<0, 0, 1>>

\* np.sin(r / 2) and np.cos(r / 2) for r = a * pi
SinHalf(a) == <<0, 1, 0, -1>>[(a % 4) + 1]

CosHalf(a) == <<1, 0, -1, 0>>[(a % 4) + 1]

\* matrix[:3, :3]
Block33(m) == Array([r \in 1..3 |-> Array([c \in 1..3 |-> m[r][c]])])

\* matrix[:, 0:3]
Cols03(m) == Array([r \in 1..Len(m) |-> Array([c \in 1..3 |-> m[r][c]])])

MatrixToQuaternion(matrix) ==
    LET rvec == Rodrigues(Block33(matrix))
        s == [j \in 1..3 |-> SinHalf(rvec[j])]
        c == [j \in 1..3 |-> CosHalf(rvec[j])]
    IN  <<s[1] * c[2] * c[3] - c[1] * s[2] * s[3],
          c[1] * s[2] * c[3] + s[1] * c[2] * s[3],
          c[1] * c[2] * s[3] - s[1] * s[2] * c[3],
          c[1] * c[2] * c[3] + s[1] * s[2] * s[3]>>

-----------------------------------------------------------------------------
(* image_callback.  The subscriber's thread runs it while the main thread   *)
(* may still be assigning the globals, so it is taken one step per place    *)
(* where it reads or writes a global.  A statement that loads a global and  *)
(* later loads or stores one (lines 184, 187, 205) is two steps: the loaded *)
(* value waits on the operand stack while the main thread may run.          *)

\* ndarray.all(): every coordinate of every point is non-zero
All(q) == \A i \in 1..Len(q) : q[i][1] # 0 /\ q[i][2] # 0

\* Variant that accepts exactly MinMatches correspondences
AcceptsAtLeast(res) ==
    /\ ~res.none
    /\ Len(res.q1) >= MinMatches /\ Len(res.q2) >= MinMatches
    /\ All(res.q1) = All(res.q2)

\* The test that guards vo.get_pose and vo_pub.publish
Accepts(res) ==
    /\ ~res.none
    /\ Len(res.q1) > MinMatches /\ Len(res.q2) > MinMatches
    /\ All(res.q1) = All(res.q2)

\* The matrix whose rotation block is turned into the orientation
OrientationSource(transf) == Cols03(cur_pose)

\* Odometry()
EmptyOdometry ==
    [stamp |-> 0, frame_id |-> "", child_frame_id |-> "",
     position |-> <<FromInt(0), FromInt(0), FromInt(0)>>,
     orientation |-> <<0, 0, 0, 0>>]

FillOdometry(transf, now) ==
    [stamp |-> now, frame_id |-> "odom", child_frame_id |-> "camera",
     position |-> Array([j \in 1..3 |-> FDiv(transf[j][4], FromInt(PositionDivisor))]),
     orientation |-> MatrixToQuaternion(OrientationSource(transf))]

NoCall == [done |-> FALSE]

\* The record of an invocation in which nothing has happened yet
NoCycle ==
    [called |-> FALSE, img1 |-> 0, img2 |-> 0, none |-> TRUE, n1 |-> 0,
     n2 |-> 0, alleq |-> TRUE, posed |-> FALSE, emitted |-> FALSE,
     R |-> I3, t |-> <<FromInt(0), FromInt(0), FromInt(0)>>, status |-> "none"]

\* The callback's argument and locals (new_image, q1, q2, transf) and the
\* value it has loaded from a global for the statement in progress
NoLocals ==
    [new_image |-> NoFrame, q1 |-> <<>>, q2 |-> <<>>, transf |-> Identity4,
     stack |-> <<>>]

\* Line 182: new_frame = bridge.imgmsg_to_cv2(new_image, "bgr8")
Convert ==
    /\ cb_pc = "182"
    /\ "bridge" \in defined
    /\ new_frame' = cb.new_image
    /\ defined' = defined \cup {"new_frame"}
    /\ cb_pc' = "184"
    /\ UNCHANGED <<process_frames, old_frame, cur_pose, odometry, world_points,
                   published, delivered, last, main_pc, cb, fn_in, fn_out>>

\* Line 184, first half: the argument of cv2.flip is loaded from new_frame
MirrorLoad ==
    /\ cb_pc = "184"
    /\ cb.stack = <<>>
    /\ cb' = [cb EXCEPT !.stack = <<new_frame>>]
    /\ UNCHANGED <<process_frames, old_frame, new_frame, cur_pose, odometry,
                   world_points, published, delivered, last, main_pc, defined,
                   cb_pc, fn_in, fn_out>>

\* Line 184, second half: new_frame = cv2.flip(<loaded image>, 1)
Mirror ==
    /\ cb_pc = "184"
    /\ cb.stack # <<>>
    /\ cb.stack[1] # NoFrame
    /\ new_frame' = Flip(cb.stack[1])
    /\ cb' = [cb EXCEPT !.stack = <<>>]
    /\ cb_pc' = "186"
    /\ UNCHANGED <<process_frames, old_frame, cur_pose, odometry, world_points,
                   published, delivered, last, main_pc, defined, fn_in, fn_out>>

\* Line 184, second half, when the loaded value is the None that the main
\* thread's line 226 stored after line 182, and cv2.flip hands back an empty
\* image instead of raising
MirrorNone ==
    /\ cb_pc = "184"
    /\ cb.stack # <<>>
    /\ cb.stack[1] = NoFrame
    /\ new_frame' = NoFrame
    /\ cb' = [cb EXCEPT !.stack = <<>>]
    /\ cb_pc' = "186"
    /\ UNCHANGED <<process_frames, old_frame, cur_pose, odometry, world_points,
                   published, delivered, last, main_pc, defined, fn_in, fn_out>>

\* Line 186: if process_frames
TestProcessFrames ==
    /\ cb_pc = "186"
    /\ "process_frames" \in defined
    /\ cb_pc' = IF process_frames THEN "187" ELSE "205"
    /\ UNCHANGED <<process_frames, old_frame, new_frame, cur_pose, odometry,
                   world_points, published, delivered, last, main_pc, defined,
                   cb, fn_in, fn_out>>

\* Line 187, first half: the first argument is loaded from old_frame
MatchLoad ==
    /\ cb_pc = "187"
    /\ cb.stack = <<>>
    /\ cb' = [cb EXCEPT !.stack = <<old_frame>>]
    /\ UNCHANGED <<process_frames, old_frame, new_frame, cur_pose, odometry,
                   world_points, published, delivered, last, main_pc, defined,
                   cb_pc, fn_in, fn_out>>

\* Lines 187-189, second half: the second argument is loaded from new_frame,
\* q1, q2 = vo.get_matches(<loaded old_frame>, new_frame), and the tests on
\* the result.  An image that is None has no keypoints.
Match(pat) ==
    /\ cb_pc = "187"
    /\ cb.stack # <<>>
    /\ LET res == GetMatches(cb.stack[1], new_frame, pat)
       IN  /\ cb' = [cb EXCEPT !.q1 = res.q1, !.q2 = res.q2, !.stack = <<>>]
           /\ last' = [last EXCEPT !.called = TRUE, !.img1 = cb.stack[1].id,
                                   !.img2 = new_frame.id, !.none = res.none,
                                   !.n1 = Len(res.q1), !.n2 = Len(res.q2),
                                   !.alleq = (All(res.q1) = All(res.q2))]
           /\ cb_pc' = IF Accepts(res) THEN "190" ELSE "205"
    /\ UNCHANGED <<process_frames, old_frame, new_frame, cur_pose, odometry,
                   world_points, published, delivered, main_pc, defined,
                   fn_in, fn_out>>

\* Line 190: transf = vo.get_pose(q1, q2)
Pose(dec, tri) ==
    LET pose == GetPose(cb.q1, cb.q2, dec, tri)
    IN  /\ cb_pc = "190"
        /\ world_points' = Append(world_points, pose.decomp.appended)
        /\ cb' = [cb EXCEPT !.transf = pose.transf]
        /\ last' = [last EXCEPT !.posed = TRUE, !.R = Block33(pose.transf),
                                !.t = Array([j \in 1..3 |-> pose.transf[j][4]])]
        /\ cb_pc' = "192"
        /\ UNCHANGED <<process_frames, old_frame, new_frame, cur_pose, odometry,
                       published, delivered, main_pc, defined, fn_in, fn_out>>

\* Lines 192-204: fill the odometry message and publish it
Emit ==
    /\ cb_pc = "192"
    /\ {"odometry", "cur_pose"} \subseteq defined
    /\ odometry' = FillOdometry(cb.transf, delivered)
    /\ published' = Append(published, odometry')
    /\ last' = [last EXCEPT !.emitted = TRUE]
    /\ cb_pc' = "205"
    /\ UNCHANGED <<process_frames, old_frame, new_frame, cur_pose, world_points,
                   delivered, main_pc, defined, cb, fn_in, fn_out>>

\* Line 205, first half: the value of new_frame is loaded
KeepLoad ==
    /\ cb_pc = "205"
    /\ cb.stack = <<>>
    /\ cb' = [cb EXCEPT !.stack = <<new_frame>>]
    /\ UNCHANGED <<process_frames, old_frame, new_frame, cur_pose, odometry,
                   world_points, published, delivered, last, main_pc, defined,
                   cb_pc, fn_in, fn_out>>

\* Line 205, second half: old_frame = <loaded value>
KeepFrame ==
    /\ cb_pc = "205"
    /\ cb.stack # <<>>
    /\ old_frame' = cb.stack[1]
    /\ defined' = defined \cup {"old_frame"}
    /\ cb' = [cb EXCEPT !.stack = <<>>]
    /\ cb_pc' = "206"
    /\ UNCHANGED <<process_frames, new_frame, cur_pose, odometry, world_points,
                   published, delivered, last, main_pc, fn_in, fn_out>>

\* Line 206: process_frames = True, and the callback returns
Arm ==
    /\ cb_pc = "206"
    /\ process_frames' = TRUE
    /\ defined' = defined \cup {"process_frames"}
    /\ cb_pc' = "idle"
    /\ cb' = NoLocals
    /\ last' = [last EXCEPT !.status = "returned"]
    /\ UNCHANGED <<old_frame, new_frame, cur_pose, odometry, world_points,
                   published, delivered, main_pc, fn_in, fn_out>>

\* An exception leaves the callback where it was raised; rospy logs it and
\* the subscriber goes on with the next message
Raised ==
    /\ cb_pc' = "idle"
    /\ cb' = NoLocals
    /\ last' = [last EXCEPT !.status = "raised"]
    /\ UNCHANGED <<process_frames, old_frame, new_frame, cur_pose, odometry,
                   world_points, published, delivered, main_pc, defined,
                   fn_in, fn_out>>

\* NameError: a global is read before the main thread has assigned it
NameError ==
    /\ \/ cb_pc = "182" /\ "bridge" \notin defined
       \/ cb_pc = "186" /\ "process_frames" \notin defined
       \/ cb_pc = "192" /\ ~({"odometry", "cur_pose"} \subseteq defined)
    /\ Raised

\* cv2.error: cv2.flip or detectAndCompute given None, or one of get_pose's
\* calls (findEssentialMat, decomposeEssentialMat, triangulatePoints) failing;
\* in get_pose these all come before world_points.append
CvError ==
    /\ \/ cb_pc = "184" /\ cb.stack # <<>> /\ cb.stack[1] = NoFrame
       \/ cb_pc = "187" /\ cb.stack # <<>>
                         /\ (cb.stack[1] = NoFrame \/ new_frame = NoFrame)
       \/ cb_pc = "190"
    /\ Raised

-----------------------------------------------------------------------------
(* The environment of the node *)

Run(kind, count) == [kind |-> kind, count |-> count]

\* Frames the camera may deliver as frame number id
FrameSizes == {MinKeypoints, MinKeypoints + 1, MinMatches + 1}

Frames(id) == {Frame(id, n, e) : n \in FrameSizes, e \in BOOLEAN}

\* knnMatch answers for the stream
StreamPats ==
    {[runs |-> <<>>, tail |-> "pass", shift |-> 0],
     [runs |-> <<Run("pass", MinMatches)>>, tail |-> "tie", shift |-> 0],
     [runs |-> <<Run("pass", 1), Run("one", 1)>>, tail |-> "pass", shift |-> 1]}

Ex == <<1, 0, 0>>

Ez == <<0, 0, 1>>

\* Triangulation answers: points in front of camera 1, behind it, one
\* repeated point, and points given with a negative homogeneous coordinate
CycFront == <<<<0, 0, 2, 1>>, <<1, 0, 3, 1>>>>

CycBehind == <<<<0, 0, -2, 1>>, <<1, 0, -3, 1>>>>

CycSame == <<<<0, 0, 2, 1>>>>

CycNegW == <<<<0, 0, -2, -1>>, <<1, 0, 3, -1>>>>

Cycs == {CycFront, CycBehind, CycSame, CycNegW}

\* decomposeEssentialMat and triangulatePoints answers for the stream
DecA == [R1 |-> I3, R2 |-> RotX, t |-> Ex]

DecB == [R1 |-> RotZ, R2 |-> RotY, t |-> Ez]

StreamPoses ==
    {[dec |-> DecA,
      tri |-> [cand |-> <<CycBehind, CycBehind, CycNegW, CycFront>>, final |-> CycNegW]],
     [dec |-> DecB,
      tri |-> [cand |-> <<CycBehind, CycSame, CycBehind, CycBehind>>, final |-> CycSame]]}

-----------------------------------------------------------------------------
(* The node: the main thread finishes its assignments while the subscriber's *)
(* thread handles the frames one at a time                                   *)

Globals == {"bridge", "process_frames", "old_frame", "new_frame", "cur_pose", "odometry"}

\* The state right after rospy.Subscriber(...) on line 222: no global of
\* lines 223-228 exists yet.  The value variables of globals that are not in
\* "defined" are placeholders; every read of a global checks "defined" first.
Init ==
    /\ main_pc = 223
    /\ defined = {}
    /\ process_frames = FALSE
    /\ old_frame = NoFrame
    /\ new_frame = NoFrame
    /\ cur_pose = Identity4
    /\ odometry = EmptyOdometry
    /\ world_points = <<>>
    /\ published = <<>>
    /\ delivered = 0
    /\ last = NoCycle
    /\ cb_pc = "idle"
    /\ cb = NoLocals
    /\ fn_in = NoCall
    /\ fn_out = NoCall

\* The global assigned by the main thread's line pc
MainTarget(pc) ==
    CASE pc = 223 -> "bridge"
      [] pc = 224 -> "process_frames"
      [] pc = 225 -> "old_frame"
      [] pc = 226 -> "new_frame"
      [] pc = 227 -> "cur_pose"
      [] OTHER    -> "odometry"

\* Lines 223-228, one assignment at a time; at 229 the main thread only spins
MainStep ==
    /\ main_pc < 229
    /\ main_pc' = main_pc + 1
    /\ defined' = defined \cup {MainTarget(main_pc)}
    /\ process_frames' = IF main_pc = 224 THEN FALSE ELSE process_frames
    /\ old_frame' = IF main_pc = 225 THEN NoFrame ELSE old_frame
    /\ new_frame' = IF main_pc = 226 THEN NoFrame ELSE new_frame
    /\ cur_pose' = IF main_pc = 227 THEN Identity4 ELSE cur_pose
    /\ odometry' = IF main_pc = 228 THEN EmptyOdometry ELSE odometry
    /\ UNCHANGED <<world_points, published, delivered, last, cb_pc, cb, fn_in, fn_out>>

\* rospy hands the next message to image_callback
Deliver ==
    /\ cb_pc = "idle"
    /\ delivered < MaxFrames
    /\ \E msg \in Frames(delivered + 1) :
          /\ cb' = [NoLocals EXCEPT !.new_image = msg]
          /\ last' = [NoCycle EXCEPT !.img2 = msg.id, !.status = "running"]
    /\ delivered' = delivered + 1
    /\ cb_pc' = "182"
    /\ UNCHANGED <<process_frames, old_frame, new_frame, cur_pose, odometry,
                   world_points, published, main_pc, defined, fn_in, fn_out>>

MatchStep == \E pat \in StreamPats : Match(pat)

PoseStep == \E p \in StreamPoses : Pose(p.dec, p.tri)

Next ==
    \/ MainStep
    \/ Deliver
    \/ Convert
    \/ MirrorLoad
    \/ Mirror
    \/ MirrorNone
    \/ TestProcessFrames
    \/ MatchLoad
    \/ MatchStep
    \/ PoseStep
    \/ Emit
    \/ KeepLoad
    \/ KeepFrame
    \/ Arm
    \/ NameError
    \/ CvError

Spec == Init /\ [][Next]_vars

-----------------------------------------------------------------------------
(* get_matches on its own: every pair of small frames, every knnMatch       *)
(* answer whose first MaxVar entries vary                                   *)

ProbeSizes == {0, MinKeypoints, MinKeypoints + 1, MinKeypoints + 2}

ProbeFrames(id) ==
    {Flip(Frame(id, n, e)) : n \in ProbeSizes, e \in BOOLEAN} \ {Flip(Frame(id, 0, TRUE))}

RunSeqs == [1..MaxVar -> {Run(k, 1) : k \in Kinds}]

ProbePats ==
    {[runs |-> r, tail |-> tl, shift |-> sh] :
        r \in RunSeqs, tl \in {"pass", "tie"}, sh \in {0, 1}}

InitMatch ==
    /\ process_frames = FALSE
    /\ old_frame = NoFrame
    /\ new_frame = NoFrame
    /\ cur_pose = Identity4
    /\ odometry = EmptyOdometry
    /\ world_points = <<>>
    /\ published = <<>>
    /\ delivered = 0
    /\ last = NoCycle
    /\ main_pc = 229
    /\ defined = Globals
    /\ cb_pc = "idle"
    /\ cb = NoLocals
    /\ fn_in \in {[done |-> TRUE, img1 |-> a, img2 |-> b, pat |-> p] :
                    a \in ProbeFrames(1), b \in ProbeFrames(2), p \in ProbePats}
    /\ fn_out = NoCall

CallGetMatches ==
    /\ ~fn_out.done
    /\ fn_out' = [done |-> TRUE, v |-> GetMatches(fn_in.img1, fn_in.img2, fn_in.pat)]
    /\ UNCHANGED <<process_frames, old_frame, new_frame, cur_pose, odometry,
                   world_points, published, delivered, last, main_pc, defined,
                   cb_pc, cb, fn_in>>

NextMatch == CallGetMatches

SpecMatch == InitMatch /\ [][NextMatch]_vars

-----------------------------------------------------------------------------
(* get_pose on its own: every decomposition and every triangulation answer  *)
(* for the four candidates                                                  *)

PosePoints(n) == Array([i \in 1..n |-> <<i, i>>])

InitPose ==
    /\ process_frames = FALSE
    /\ old_frame = NoFrame
    /\ new_frame = NoFrame
    /\ cur_pose = Identity4
    /\ odometry = EmptyOdometry
    /\ world_points = <<>>
    /\ published = <<>>
    /\ delivered = 0
    /\ last = NoCycle
    /\ main_pc = 229
    /\ defined = Globals
    /\ cb_pc = "idle"
    /\ cb = NoLocals
    /\ fn_in \in {[done |-> TRUE, n |-> n,
                   dec |-> [R1 |-> r1, R2 |-> r2, t |-> t],
                   tri |-> [cand |-> c, final |-> f]] :
                    n \in 2..MaxPts, r1 \in Rotations, r2 \in {I3, RotX}, t \in {Ex, Ez},
                    c \in [1..4 -> Cycs], f \in {CycFront, CycSame}}
    /\ fn_out = NoCall

CallGetPose ==
    /\ ~fn_out.done
    /\ LET pose == GetPose(PosePoints(fn_in.n), PosePoints(fn_in.n), fn_in.dec, fn_in.tri)
       IN  /\ fn_out' = [done |-> TRUE, v |-> pose]
           /\ world_points' = Append(world_points, pose.decomp.appended)
    /\ UNCHANGED <<process_frames, old_frame, new_frame, cur_pose, odometry,
                   published, delivered, last, main_pc, defined, cb_pc, cb,
                   fn_in>>

NextPose == CallGetPose

SpecPose == InitPose /\ [][NextPose]_vars

-----------------------------------------------------------------------------
(* sum_z_cal_relative_scale on its own: every rotation and translation of   *)
(* the model, and every triangulation answer made of points on one axis.    *)
(* The points seen from camera 2 are computed from those of camera 1, as in *)
(* the code.                                                                *)

AxisPoints(n) ==
    {Array([i \in 1..n |-> <<0, 0, z[i], 1>>]) : z \in [1..n -> 0..MaxCoord]}
      \cup {Array([i \in 1..n |-> <<z[i], 0, 0, 1>>]) : z \in [1..n -> 0..MaxCoord]}

InitScale ==
    /\ process_frames = FALSE
    /\ old_frame = NoFrame
    /\ new_frame = NoFrame
    /\ cur_pose = Identity4
    /\ odometry = EmptyOdometry
    /\ world_points = <<>>
    /\ published = <<>>
    /\ delivered = 0
    /\ last = NoCycle
    /\ main_pc = 229
    /\ defined = Globals
    /\ cb_pc = "idle"
    /\ cb = NoLocals
    /\ \E n \in 2..MaxPts :
          fn_in \in {[done |-> TRUE, R |-> r, t |-> tr, homQ1 |-> h] :
                        r \in Rotations, tr \in {Ex, Neg(Ez)}, h \in AxisPoints(n)}
    /\ fn_out = NoCall

CallRelativeScale ==
    /\ ~fn_out.done
    /\ fn_out' = [done |-> TRUE, v |-> SumZCalRelativeScale(fn_in.R, fn_in.t, fn_in.homQ1)]
    /\ UNCHANGED <<process_frames, old_frame, new_frame, cur_pose, odometry,
                   world_points, published, delivered, last, main_pc, defined,
                   cb_pc, cb, fn_in>>

NextScale == CallRelativeScale

SpecScale == InitScale /\ [][NextScale]_vars

-----------------------------------------------------------------------------
(* Properties of image_callback (Spec) *)

\* What the latest cycle's get_matches result looked like
EnoughAtLeast == ~last.none /\ last.n1 >= MinMatches /\ last.n2 >= MinMatches

EnoughMoreThan ==
    ~last.none /\ last.n1 > MinMatches /\ last.n2 > MinMatches /\ last.alleq

\* The latest invocation is over and get_matches returned in it
Ended == cb_pc = "idle" /\ last.called

\* A message was published in the latest invocation
PublishedNow == Len(published) > 0 /\ published[Len(published)].stamp = delivered

\* C1 as stated: in every cycle after the first frame a pose is published if
\* and only if get_matches returned a correspondence set and q1 and q2 each
\* hold at least 20 correspondences; otherwise nothing is published and the
\* callback completes normally.
C1_AtLeast20 ==
    Ended => /\ PublishedNow <=> EnoughAtLeast
             /\ ~EnoughAtLeast => ~PublishedNow /\ last.status = "returned"

\* C1 amended: in every cycle in which get_matches returned, a pose is
\* published if and only if the result is a correspondence set, q1 and q2 each
\* hold more than 20 correspondences, q1.all() equals q2.all() and nothing
\* raises between get_pose and publish; when the result is NONE, or a set
\* holds 20 or fewer, or the all() values differ, nothing is published and the
\* callback completes normally.
C1_MoreThan20 ==
    Ended => /\ PublishedNow <=> (EnoughMoreThan /\ last.status = "returned")
             /\ PublishedNow => published[Len(published)] = odometry
             /\ ~EnoughMoreThan => ~PublishedNow /\ last.status = "returned"

C1_Witness ==
    /\ Ended /\ PublishedNow /\ last.status = "returned"
    /\ last.n1 = MinMatches + 1 /\ last.n2 = MinMatches + 1

\* C2 as stated: every invocation of image_callback leaves the delivered frame
\* as the previous frame; get_matches is not called on the first frame, and at
\* the n-th frame (n >= 2) it is called on (frame n-1, frame n).
C2_PairIsPreviousAndCurrent ==
    /\ last.called => last.img2 >= 2 /\ last.img1 = last.img2 - 1
    /\ (cb_pc = "idle" /\ delivered >= 1) => old_frame.id = delivered
    /\ (cb_pc = "idle" /\ delivered >= 2) => last.called

\* C3 as stated: the published position is the translation column of the
\* transform resolved in this cycle divided by 100, and the published
\* orientation is the quaternion of the rotation block of that same transform.
C3_PoseFromResolvedTransform ==
    last.emitted
      => /\ odometry.position = <<FDiv(last.t[1], FromInt(PositionDivisor)),
                                  FDiv(last.t[2], FromInt(PositionDivisor)),
                                  FDiv(last.t[3], FromInt(PositionDivisor))>>
         /\ odometry.orientation = MatrixToQuaternion(last.R)

\* C9 as stated: vo.world_points holds nothing from earlier cycles, so it
\* never holds more than the point set of the cycle that just ran.
C9_NoWorldPointsKept ==
    Len(world_points) <= (IF last.posed THEN 1 ELSE 0)

-----------------------------------------------------------------------------
(* Properties of get_matches (SpecMatch) *)

RatioPass(entry) == Len(entry) = 2 /\ 2 * entry[1].distance < entry[2].distance

\* C4 as stated: an entry without exactly two neighbours costs only itself;
\* every entry of the match list that passes the ratio test, before or after
\* such an entry, is among the accepted matches.
C4_OnlyAnomalyDropped ==
    (fn_out.done /\ ~fn_out.v.none)
      => \A i \in 1..Len(fn_out.v.matches) :
            RatioPass(fn_out.v.matches[i])
              => \E j \in 1..Len(fn_out.v.good) : fn_out.v.good[j] = fn_out.v.matches[i][1]

\* C5: get_matches returns (None, None) exactly when one of the frames has 6
\* or fewer keypoints, and then without calling knnMatch; otherwise it calls
\* knnMatch once and returns a correspondence set.
C5_NoneIffFewKeypoints ==
    fn_out.done
      => /\ fn_out.v.none <=> \/ Len(DetectAndCompute(fn_in.img1)) <= MinKeypoints
                              \/ Len(DetectAndCompute(fn_in.img2)) <= MinKeypoints
         /\ fn_out.v.none => fn_out.v.knn_calls = 0 /\ fn_out.v.matches = <<>>
         /\ ~fn_out.v.none => fn_out.v.knn_calls = 1

C5_Witness ==
    /\ fn_out.done /\ fn_out.v.none
    /\ Len(DetectAndCompute(fn_in.img1)) > MinKeypoints
    /\ Len(DetectAndCompute(fn_in.img2)) = MinKeypoints

\* C6: q1 and q2 have the same length, and for every index i the points q1[i]
\* and q2[i] are the query keypoint (frame A) and the train keypoint (frame B)
\* of one knnMatch entry whose nearest distance is strictly below 0.5 times
\* its second-nearest distance.
C6_PairsFromAcceptedMatch ==
    (fn_out.done /\ ~fn_out.v.none)
      => /\ Len(fn_out.v.q1) = Len(fn_out.v.q2)
         /\ \A i \in 1..Len(fn_out.v.q1) :
               \E e \in 1..Len(fn_out.v.matches) :
                  /\ RatioPass(fn_out.v.matches[e])
                  /\ fn_out.v.q1[i]
                       = DetectAndCompute(fn_in.img1)[fn_out.v.matches[e][1].queryIdx]
                  /\ fn_out.v.q2[i]
                       = DetectAndCompute(fn_in.img2)[fn_out.v.matches[e][1].trainIdx]

C6_Witness ==
    /\ fn_out.done /\ ~fn_out.v.none
    /\ Len(fn_out.v.q1) >= 2 /\ Len(fn_out.v.q1) < Len(fn_out.v.matches)
    /\ fn_out.v.q1[1] # fn_out.v.q2[1]
    /\ \E e \in 1..Len(fn_out.v.matches) :
          Len(fn_out.v.matches[e]) = 2 /\ ~RatioPass(fn_out.v.matches[e])

-----------------------------------------------------------------------------
(* Properties of decomp_essential_mat and get_pose (SpecPose) *)

\* Points with z > 0 seen from camera 1 plus points with z > 0 seen from
\* camera 2, camera 2 seeing the point Q at R Q + t
Cheirality(R, t, hom) ==
    LET Q == UnHomogenize(hom)
    IN  Cardinality({i \in 1..Len(Q) : Q[i][3] > 0})
          + Cardinality({i \in 1..Len(Q) :
               R[3][1] * Q[i][1] + R[3][2] * Q[i][2] + R[3][3] * Q[i][3] + t[3] > 0})

Candidates(dec) ==
    <<<<dec.R1, dec.t>>, <<dec.R1, Neg(dec.t)>>, <<dec.R2, dec.t>>, <<dec.R2, Neg(dec.t)>>>>

CandidateScore(c) ==
    Cheirality(Candidates(fn_in.dec)[c][1], Candidates(fn_in.dec)[c][2],
               Triangulate(fn_in.tri.cand[c], fn_in.n))

FirstBest ==
    CHOOSE c \in 1..4 :
        /\ \A e \in 1..4 : CandidateScore(e) <= CandidateScore(c)
        /\ \A e \in 1..(c - 1) : CandidateScore(e) < CandidateScore(c)

\* C7 as stated: the four candidates are (R1, t), (R1, -t), (R2, t),
\* (R2, -t), each scored by its points with z > 0 in camera 1 plus those in
\* camera 2; the returned rotation is that of the first candidate with the
\* highest score, and the returned translation is that candidate's
\* translation times that candidate's relative scale.
C7_FirstBestCandidate ==
    fn_out.done
      => LET d == fn_out.v.decomp
         IN  /\ d.pairs = Candidates(fn_in.dec)
             /\ \A c \in 1..4 : d.z_sums[c] = CandidateScore(c)
             /\ d.R = Candidates(fn_in.dec)[FirstBest][1]
             /\ \A j \in 1..3 :
                  d.t[j] = FMul(FromInt(Candidates(fn_in.dec)[FirstBest][2][j]),
                                d.relative_scales[FirstBest])

\* C7 amended: candidates, scores and returned rotation as stated; the
\* returned translation is the first best candidate's translation times that
\* same candidate's relative scale, each component of the product that is
\* NaN or infinite being replaced by 1e-5.
C7_FirstBestCandidateClamped ==
    fn_out.done
      => LET d == fn_out.v.decomp
         IN  /\ d.pairs = Candidates(fn_in.dec)
             /\ \A c \in 1..4 : d.z_sums[c] = CandidateScore(c)
             /\ d.R = Candidates(fn_in.dec)[FirstBest][1]
             /\ \A j \in 1..3 :
                  LET prod == FMul(FromInt(Candidates(fn_in.dec)[FirstBest][2][j]),
                                   d.relative_scales[FirstBest])
                  IN  d.t[j] = IF IsFinite(prod) THEN prod ELSE Epsilon

\* A later candidate ties with the first best one and has another rotation
\* and a finite relative scale, while the first best candidate's own scale is
\* NaN and its translation has been replaced
C7_Witness ==
    /\ fn_out.done
    /\ \E c \in 1..4 :
          /\ c > FirstBest
          /\ CandidateScore(c) = CandidateScore(FirstBest)
          /\ fn_out.v.decomp.R # Candidates(fn_in.dec)[c][1]
          /\ IsFinite(fn_out.v.decomp.relative_scales[c])
    /\ ~IsFinite(fn_out.v.decomp.relative_scales[FirstBest])
    /\ fn_out.v.decomp.t = <<Epsilon, Epsilon, Epsilon>>

\* C8: every component of the translation returned by decomp_essential_mat,
\* and of the translation column of the transform get_pose returns, is finite:
\* a component of the scaled translation that is NaN or infinite has become
\* 1e-5, and a finite component is unchanged.
C8_TranslationFinite ==
    fn_out.done
      => LET d == fn_out.v.decomp
         IN  \A j \in 1..3 :
                /\ IsFinite(d.t[j])
                /\ fn_out.v.transf[j][4] = d.t[j]
                /\ IsFinite(d.scaled[j]) => d.t[j] = d.scaled[j]
                /\ ~IsFinite(d.scaled[j]) => d.t[j] = Fin(1, EpsilonDen)

C8_Witness ==
    /\ fn_out.done
    /\ \E j \in 1..3 : ~IsFinite(fn_out.v.decomp.scaled[j])
    /\ fn_out.v.transf[1][4] = Fin(1, EpsilonDen)

-----------------------------------------------------------------------------
(* Properties of the relative scale (SpecScale) *)

\* Distance between consecutive points i and i+1
Dist(Q, i) == FSqrt(FromInt(SumSq(Sub(Q[i], Q[i + 1]))))

\* Every camera-2 distance is k times the camera-1 distance, none being zero
ConstantFactor(k) ==
    \A i \in 1..(Len(fn_out.v.Q1) - 1) :
        /\ Dist(fn_out.v.Q1, i) # FromInt(0)
        /\ Dist(fn_out.v.Q2, i) = FMul(k, Dist(fn_out.v.Q1, i))

Factors == {Fin(a, b) : a \in 1..MaxCoord, b \in 1..MaxCoord}

\* C10: if every camera-2 distance is k times the camera-1 distance (all
\* non-zero), the relative scale computed by sum_z_cal_relative_scale is k.
C10_ScaleIsK ==
    fn_out.done => \A k \in Factors : ConstantFactor(k) => fn_out.v.scale = k

\* Three points or more, pairwise consecutive distances non-zero, seen from
\* a camera 2 that is turned and shifted
C10_Witness ==
    /\ fn_out.done
    /\ Len(fn_out.v.Q1) >= 3
    /\ fn_in.R # I3
    /\ fn_out.v.Q2 # fn_out.v.Q1
    /\ \E k \in Factors : ConstantFactor(k) /\ fn_out.v.scale = k

====
